---- MODULE Spec2Model ----
(***************************************************************************)
(* Model of the matching-and-renaming engine of the ProcessFiles component *)
(* (half144/auto-rename).  A JavaScript string is a sequence of UTF-16     *)
(* code units; every code unit is written as a one-element TLA+ string,    *)
(* except the three non-ASCII units below.                                 *)
(***************************************************************************)
EXTENDS Integers, Sequences, FiniteSets, TLC

VARIABLES
  \* props of the component
  matchColumn, format, files, jsonData,
  \* state of the Levenshtein variant of ProcessFiles, and the locals of the
  \* last run of its preview loop
  referenceData, filePreviews, isPreviewReady, locals,
  \* its error state, the zip.file calls of the last run of its processFiles,
  \* and the archive handed to saveAs
  error, packed, savedZip,
  \* state of the variant src/app/components/ProcessFiles.tsx, and the
  \* matchValue of each file in the last run of its generatePreviews loop
  referenceDataTsx, filePreviewsTsx, isPreviewReadyTsx, errorTsx, matchValuesTsx,
  \* the flags and the progress of the Levenshtein variant
  isProcessing, isDownloading, progress,
  \* its reads of the reference file that have not settled, and its runs of
  \* processFiles that have not returned, each with the values it closed over
  loads, commits,
  \* state of the page: the reference file (present or null), the columns
  \* reported by the selector, and the wizard
  referenceFile, availableColumns, activeStep, expandedSteps,
  \* state of ReferenceColumnSelector, and the runs of its load effect
  isLoading, selectedColumn, hasSelectedInitialColumn, selectorError, columns,
  effectRuns

props == <<matchColumn, format, files, jsonData>>
stateLev == <<referenceData, filePreviews, isPreviewReady, locals>>
stateTsx == <<referenceDataTsx, filePreviewsTsx, isPreviewReadyTsx, errorTsx,
              matchValuesTsx>>

commitLev == <<error, packed, savedZip>>

flagsLev == <<isProcessing, isDownloading, progress>>
inFlight == <<loads, commits>>
pageState == <<referenceFile, availableColumns, activeStep, expandedSteps>>
selectorState == <<isLoading, selectedColumn, hasSelectedInitialColumn,
                   selectorError, columns, effectRuns>>

vars == <<props, stateLev, commitLev, stateTsx, flagsLev, inFlight, pageState,
          selectorState>>

(***************************************************************************)
(* Code units and character classes                                        *)
(***************************************************************************)
\* U+00E3 (a with tilde), U+00C3 (A with tilde), U+0303 (combining tilde)
ATilde == "a~"
UpperATilde == "A~"
CombiningTilde == "U+0303"

UpperAZ == <<"A","B","C","D","E","F","G","H","I","J","K","L","M",
             "N","O","P","Q","R","S","T","U","V","W","X","Y","Z">>
LowerAZ == <<"a","b","c","d","e","f","g","h","i","j","k","l","m",
             "n","o","p","q","r","s","t","u","v","w","x","y","z">>
DigitSeq == <<"0","1","2","3","4","5","6","7","8","9">>

Range(s) == {s[i] : i \in 1..Len(s)}

Digits == Range(DigitSeq)
AlphaNum == Range(UpperAZ) \cup Range(LowerAZ) \cup Digits
\* the class [_\s-] of the extractor's patterns
Separators == {"_", " ", "-"}
\* what String.prototype.trim removes
WhiteSpace == {" "}
\* the range U+0300..U+036F removed after NFD
CombiningMarks == {CombiningTilde}

(***************************************************************************)
(* String primitives with JavaScript semantics (0-based positions)         *)
(***************************************************************************)
Max(a, b) == IF a >= b THEN a ELSE b
Min(a, b) == IF a <= b THEN a ELSE b

\* s.substring(start, end): arguments clamped to 0..length and swapped when
\* start > end
Substring(s, start, end) ==
  LET a == Min(Max(start, 0), Len(s))
      b == Min(Max(end, 0), Len(s))
      lo == Min(a, b)
      hi == Max(a, b)
  IN  SubSeq(s, lo + 1, hi)

\* s.substring(start)
SubstringFrom(s, start) == Substring(s, start, Len(s))

\* s.lastIndexOf(c) for a single code unit c; -1 when absent
LastIndexOf(s, c) ==
  IF \E i \in 1..Len(s) : s[i] = c
  THEN (CHOOSE i \in 1..Len(s) : s[i] = c /\ \A j \in (i+1)..Len(s) : s[j] # c) - 1
  ELSE -1

\* s.indexOf(sub); -1 when absent
IndexOf(s, sub) ==
  LET hits == {i \in 0..(Len(s) - Len(sub)) : SubSeq(s, i + 1, i + Len(sub)) = sub}
  IN  IF hits = {} THEN -1 ELSE CHOOSE i \in hits : \A j \in hits : i <= j

\* s.includes(sub)
Includes(s, sub) == IndexOf(s, sub) # -1

RECURSIVE GetSubstitution(_, _, _, _)
\* the replacement text of String.prototype.replace for a string pattern:
\* $$ is a dollar, $& the matched text, $` the text before the match and $'
\* the text after it; every other unit stands for itself
GetSubstitution(replacement, matched, before, after) ==
  IF replacement = <<>> THEN <<>>
  ELSE IF Head(replacement) = "$" /\ Len(replacement) >= 2
          /\ replacement[2] \in {"$", "&", "`", "'"}
  THEN (CASE replacement[2] = "$" -> <<"$">>
          [] replacement[2] = "&" -> matched
          [] replacement[2] = "`" -> before
          [] replacement[2] = "'" -> after)
       \o GetSubstitution(SubSeq(replacement, 3, Len(replacement)),
                          matched, before, after)
  ELSE <<Head(replacement)>>
       \o GetSubstitution(Tail(replacement), matched, before, after)

\* s.replace(pattern, replacement) with a string pattern: first occurrence only
ReplaceFirst(s, pattern, replacement) ==
  LET i == IndexOf(s, pattern)
      before == SubSeq(s, 1, i)
      after == SubSeq(s, i + Len(pattern) + 1, Len(s))
  IN  IF i = -1 THEN s
      ELSE before \o GetSubstitution(replacement, pattern, before, after) \o after

ToLowerUnit(c) ==
  IF \E i \in 1..26 : UpperAZ[i] = c
  THEN LowerAZ[CHOOSE i \in 1..26 : UpperAZ[i] = c]
  ELSE IF c = UpperATilde THEN ATilde ELSE c

\* s.toLowerCase()
ToLowerCase(s) == [i \in 1..Len(s) |-> ToLowerUnit(s[i])]

\* canonical decomposition of one code unit
DecomposeUnit(c) ==
  IF c = ATilde THEN <<"a", CombiningTilde>>
  ELSE IF c = UpperATilde THEN <<"A", CombiningTilde>>
  ELSE <<c>>

RECURSIVE NormalizeNFD(_)
\* s.normalize("NFD")
NormalizeNFD(s) ==
  IF s = <<>> THEN <<>> ELSE DecomposeUnit(Head(s)) \o NormalizeNFD(Tail(s))

\* s.replace(/[\u0300-\u036f]/g, "")
StripCombiningMarks(s) == SelectSeq(s, LAMBDA c : c \notin CombiningMarks)

\* s.trim()
Trim(s) ==
  LET keep == {i \in 1..Len(s) : s[i] \notin WhiteSpace}
  IN  IF keep = {} THEN <<>>
      ELSE SubSeq(s, CHOOSE i \in keep : \A j \in keep : i <= j,
                     CHOOSE i \in keep : \A j \in keep : i >= j)

\* the comparison form used by findBestMatch for identifier and key
NormalizeForMatch(s) == Trim(StripCombiningMarks(NormalizeNFD(ToLowerCase(s))))

(***************************************************************************)
(* levenshtein.get(a, b): edit distance, computed row by row               *)
(***************************************************************************)
RECURSIVE LevRow(_, _, _, _, _)
\* row i of the distance table from row i - 1 (index j + 1 holds column j):
\* d[i][j] = min(d[i-1][j] + 1, d[i][j-1] + 1, d[i-1][j-1] + cost);
\* acc is the part of row i built so far
LevRow(prev, acc, ch, b, j) ==
  IF j > Len(b) THEN acc
  ELSE LET cost == IF b[j] = ch THEN 0 ELSE 1
           v == Min(Min(prev[j + 1] + 1, acc[j] + 1), prev[j] + cost)
       IN  LevRow(prev, Append(acc, v), ch, b, j + 1)

RECURSIVE LevRows(_, _, _, _)
LevRows(prev, a, b, i) ==
  IF i > Len(a) THEN prev
  ELSE LET row == LevRow(prev, <<i>>, a[i], b, 1)
       IN  \* the test makes the row a value before the next one is started
           IF Len(row) = Len(b) + 1 THEN LevRows(row, a, b, i + 1) ELSE <<>>

Levenshtein(a, b) ==
  LevRows([j \in 1..(Len(b) + 1) |-> j - 1], a, b, 1)[Len(b) + 1]

(***************************************************************************)
(* Plain JavaScript objects: own properties in insertion order.  A         *)
(* reference row and the refData map are both such objects.                *)
(***************************************************************************)
\* some of the members every plain object inherits from Object.prototype
ObjectPrototypeNames ==
  { <<"v","a","l","u","e","O","f">>,
    <<"c","o","n","s","t","r","u","c","t","o","r">> }

HasOwn(obj, key) == \E i \in 1..Len(obj) : obj[i][1] = key

OwnValue(obj, key) == obj[CHOOSE i \in 1..Len(obj) : obj[i][1] = key][2]

\* obj[key] = value: an existing property keeps its position
SetProperty(obj, key, value) ==
  IF HasOwn(obj, key)
  THEN [i \in 1..Len(obj) |-> IF obj[i][1] = key THEN <<key, value>> ELSE obj[i]]
  ELSE Append(obj, <<key, value>>)

DigitValue(c) == (CHOOSE i \in 1..10 : DigitSeq[i] = c) - 1

\* x < y for digit strings of the same length
LexLess(x, y) ==
  \E i \in 1..Len(x) :
    /\ DigitValue(x[i]) < DigitValue(y[i])
    /\ \A j \in 1..(i - 1) : x[j] = y[j]

\* numeric order of canonical digit strings (no leading zero)
NumLess(x, y) == Len(x) < Len(y) \/ (Len(x) = Len(y) /\ LexLess(x, y))

\* 2^32 - 2, the largest array index
MaxArrayIndexDigits == <<"4","2","9","4","9","6","7","2","9","4">>

\* keys that are canonical array indices ("0", "7", "310"; not "007")
IsArrayIndex(key) ==
  /\ Len(key) >= 1
  /\ \A i \in 1..Len(key) : key[i] \in Digits
  /\ (Len(key) = 1 \/ key[1] # "0")
  /\ ~NumLess(MaxArrayIndexDigits, key)

RECURSIVE SortByNumber(_)
SortByNumber(keySet) ==
  IF keySet = {} THEN <<>>
  ELSE LET k == CHOOSE x \in keySet : \A y \in keySet : ~NumLess(y, x)
       IN  <<k>> \o SortByNumber(keySet \ {k})

InsertionKeys(obj) == [i \in 1..Len(obj) |-> obj[i][1]]

\* Object.keys(obj): array-index keys in ascending numeric order first, then
\* the other keys in insertion order
ObjectKeys(obj) ==
  SortByNumber({k \in Range(InsertionKeys(obj)) : IsArrayIndex(k)})
  \o SelectSeq(InsertionKeys(obj), LAMBDA k : ~IsArrayIndex(k))

\* the value of an expression obj[key] on the refData map, as the preview loop
\* sees it: an own row, an inherited member (truthy, not a row), or undefined
Undefined == [kind |-> "undefined", row |-> <<>>]
InheritedMember == [kind |-> "inherited", row |-> <<>>]
OwnRow(row) == [kind |-> "row", row |-> row]

GetProperty(obj, key) ==
  IF HasOwn(obj, key) THEN OwnRow(OwnValue(obj, key))
  ELSE IF key \in ObjectPrototypeNames THEN InheritedMember
  ELSE Undefined

Truthy(v) == v.kind # "undefined"

\* row[field] || "" on a reference row
FieldOrEmpty(row, field) == IF HasOwn(row, field) THEN OwnValue(row, field) ELSE <<>>

(***************************************************************************)
(* Column classification, extractor and matcher                            *)
(***************************************************************************)
StrColaborador == <<"c","o","l","a","b","o","r","a","d","o","r">>
StrNome == <<"n","o","m","e">>

\* matchColumn.toLowerCase().includes("colaborador") || ...includes("nome")
IsNameColumn(col) ==
  \/ Includes(ToLowerCase(col), StrColaborador)
  \/ Includes(ToLowerCase(col), StrNome)

RECURSIVE LeadingRun(_, _)
\* the longest prefix of s made of units of the class
LeadingRun(s, class) ==
  IF s = <<>> \/ Head(s) \notin class THEN <<>>
  ELSE <<Head(s)>> \o LeadingRun(Tail(s), class)

RECURSIVE TrailingRun(_, _)
TrailingRun(s, class) ==
  IF s = <<>> \/ s[Len(s)] \notin class THEN <<>>
  ELSE TrailingRun(SubSeq(s, 1, Len(s) - 1), class) \o <<s[Len(s)]>>

NoCapture == [matched |-> FALSE, group |-> <<>>]

\* s.match(/^(\d+)[_\s-]+/) and s.match(/^([A-Za-z0-9]+)[_\s-]+/)
MatchLeading(s, class) ==
  LET run == LeadingRun(s, class)
  IN  IF Len(run) >= 1 /\ Len(s) > Len(run) /\ s[Len(run) + 1] \in Separators
      THEN [matched |-> TRUE, group |-> run]
      ELSE NoCapture

\* s.match(/[_\s-]+(\d+)$/)
MatchTrailingDigits(s) ==
  LET run == TrailingRun(s, Digits)
  IN  IF Len(run) >= 1 /\ Len(s) > Len(run) /\ s[Len(s) - Len(run)] \in Separators
      THEN [matched |-> TRUE, group |-> run]
      ELSE NoCapture

\* filename.substring(0, filename.lastIndexOf("."))
NameWithoutExtension(filename) == Substring(filename, 0, LastIndexOf(filename, "."))

extractIdentifierFromFilename(filename, col) ==
  LET nameWithoutExtension == NameWithoutExtension(filename)
      p1 == MatchLeading(nameWithoutExtension, Digits)
      p2 == MatchTrailingDigits(nameWithoutExtension)
      p3 == MatchLeading(nameWithoutExtension, AlphaNum)
  IN  IF IsNameColumn(col) THEN nameWithoutExtension
      ELSE IF p1.matched THEN p1.group
      ELSE IF p2.matched THEN p2.group
      ELSE IF p3.matched THEN p3.group
      ELSE nameWithoutExtension

\* the result of findBestMatch: a key, or null
Null == [isNull |-> TRUE, key |-> <<>>]
KeyResult(k) == [isNull |-> FALSE, key |-> k]

\* a threshold test that excludes the boundary
WithinThresholdStrict(distance, identifier) ==
  10 * distance < (IF 4 * Len(identifier) <= 100 THEN 4 * Len(identifier) ELSE 100)

\* distance <= Math.min(identifier.length * 0.4, 10), in tenths
WithinThreshold(distance, identifier) ==
  10 * distance <= Min(4 * Len(identifier), 100)

RECURSIVE ScanKeys(_, _, _, _, _)
\* the for-loop of findBestMatch; best = Null stands for
\* lowestDistance = Infinity
ScanKeys(identifier, referenceKeys, i, best, lowestDistance) ==
  IF i > Len(referenceKeys) THEN best
  ELSE LET key == referenceKeys[i]
           distance == Levenshtein(NormalizeForMatch(identifier), NormalizeForMatch(key))
       IN  IF (best.isNull \/ distance < lowestDistance)
              /\ WithinThreshold(distance, identifier)
           THEN ScanKeys(identifier, referenceKeys, i + 1, KeyResult(key), distance)
           ELSE ScanKeys(identifier, referenceKeys, i + 1, best, lowestDistance)

findBestMatch(identifier, referenceKeys, col) ==
  IF identifier \in Range(referenceKeys) THEN KeyResult(identifier)
  ELSE IF IsNameColumn(col) THEN ScanKeys(identifier, referenceKeys, 1, Null, 0)
  ELSE Null

(***************************************************************************)
(* Renderer                                                                *)
(***************************************************************************)
StrExtensao == <<"e","x","t","e","n","s","a","o">>
TokenExtensao == <<"{">> \o StrExtensao \o <<"}">>

\* the characters of the class [<>:"/\|?*]
IllegalChars == {"<", ">", ":", "\"", "/", "\\", "|", "?", "*"}

ErrReferenceNotFound == "Dados de referencia nao encontrados"

NoError == [present |-> FALSE, message |-> ""]
ErrorOf(msg) == [present |-> TRUE, message |-> msg]

RECURSIVE Placeholders(_, _)
\* format.match(/\{([^}]+)\}/g) || [], scanning from 0-based position from
Placeholders(fmt, from) ==
  LET opens == {i \in (from + 1)..Len(fmt) :
                  /\ fmt[i] = "{"
                  /\ \E j \in (i + 2)..Len(fmt) :
                       /\ fmt[j] = "}"
                       /\ \A k \in (i + 1)..(j - 1) : fmt[k] # "}"}
  IN  IF opens = {} THEN <<>>
      ELSE LET i == CHOOSE x \in opens : \A y \in opens : x <= y
               j == CHOOSE x \in (i + 2)..Len(fmt) :
                      fmt[x] = "}" /\ \A k \in (i + 1)..(x - 1) : fmt[k] # "}"
           IN  <<SubSeq(fmt, i, j)>> \o Placeholders(fmt, j)

RECURSIVE SubstituteFields(_, _, _, _)
\* the loop over the placeholders
SubstituteFields(newName, placeholders, i, row) ==
  IF i > Len(placeholders) THEN newName
  ELSE LET placeholder == placeholders[i]
           fieldName == Substring(placeholder, 1, Len(placeholder) - 1)
       IN  IF fieldName = StrExtensao
           THEN SubstituteFields(newName, placeholders, i + 1, row)
           ELSE SubstituteFields(
                  ReplaceFirst(newName, placeholder, FieldOrEmpty(row, fieldName)),
                  placeholders, i + 1, row)

\* newName.replace(/[<>:"/\\|?*]/g, "_")
Sanitize(s) == [i \in 1..Len(s) |-> IF s[i] \in IllegalChars THEN "_" ELSE s[i]]

generateNewFilename(originalFilename, fileReferenceData, fmt) ==
  IF ~Truthy(fileReferenceData)
  THEN [newName |-> originalFilename, error |-> ErrorOf(ErrReferenceNotFound)]
  ELSE LET extension == SubstringFrom(originalFilename,
                                      LastIndexOf(originalFilename, "."))
           withExt == IF ~Includes(fmt, TokenExtensao)
                      THEN fmt \o extension
                      ELSE ReplaceFirst(fmt, TokenExtensao, SubstringFrom(extension, 1))
           filled == SubstituteFields(withExt, Placeholders(fmt, 0), 1,
                                      fileReferenceData.row)
       IN  [newName |-> Sanitize(filled), error |-> NoError]

(***************************************************************************)
(* Reference map and preview pass                                          *)
(***************************************************************************)
RECURSIVE BuildRefData(_, _, _, _)
\* jsonData.forEach(row => { key = row[col]?.toString().trim();
\*                           if (key) refData[key] = row })
BuildRefData(rows, col, i, refData) ==
  IF i > Len(rows) THEN refData
  ELSE LET row == rows[i]
           key == IF HasOwn(row, col) THEN Trim(OwnValue(row, col)) ELSE <<>>
       IN  IF key # <<>>
           THEN BuildRefData(rows, col, i + 1, SetProperty(refData, key, row))
           ELSE BuildRefData(rows, col, i + 1, refData)

\* a resolution that scans for the closest key before looking the identifier up
ResolveFileFuzzyFirst(identifier, refData, col) ==
  LET scanned == IF IsNameColumn(col)
                 THEN ScanKeys(identifier, ObjectKeys(refData), 1, Null, 0)
                 ELSE Null
      direct == GetProperty(refData, identifier)
  IN  IF ~scanned.isNull
      THEN [fileRefData |-> GetProperty(refData, scanned.key),
            matchedIdentifier |-> scanned.key]
      ELSE [fileRefData |-> direct, matchedIdentifier |-> identifier]

\* the body of the preview loop for one file: direct lookup, then
\* findBestMatch when the lookup is falsy
ResolveFile(identifier, refData, col) ==
  LET direct == GetProperty(refData, identifier)
      bestMatch == findBestMatch(identifier, ObjectKeys(refData), col)
  IN  IF Truthy(direct)
      THEN [fileRefData |-> direct, matchedIdentifier |-> identifier]
      ELSE IF ~bestMatch.isNull /\ bestMatch.key # <<>>
      THEN [fileRefData |-> GetProperty(refData, bestMatch.key),
            matchedIdentifier |-> bestMatch.key]
      ELSE [fileRefData |-> direct, matchedIdentifier |-> identifier]

PreviewLocals(file, refData, col, fmt) ==
  LET identifier == extractIdentifierFromFilename(file.name, col)
      resolved == ResolveFile(identifier, refData, col)
      generated == generateNewFilename(file.name, resolved.fileRefData, fmt)
  IN  [nameWithoutExtension |-> NameWithoutExtension(file.name),
       identifier |-> identifier,
       fileRefData |-> resolved.fileRefData,
       matchedIdentifier |-> resolved.matchedIdentifier,
       newName |-> generated.newName,
       error |-> generated.error]

\* previews.push({originalName, newName, error: error ? `${error} (Melhor
\* correspondencia: ${matchedIdentifier})` : undefined, size})
PreviewEntry(file, l) ==
  [originalName |-> file.name,
   newName |-> l.newName,
   error |-> [present |-> l.error.present,
              message |-> l.error.message,
              bestCorrespondence |-> IF l.error.present
                                     THEN l.matchedIdentifier ELSE <<>>],
   size |-> file.size]

\* a loop that gives up matching once a file had no match
LoopLocalsStopAtNoMatch(fs, refData, col, fmt) ==
  [i \in 1..Len(fs) |->
     IF \E j \in 1..(i - 1) :
          PreviewLocals(fs[j], refData, col, fmt).fileRefData.kind = "undefined"
     THEN PreviewLocals(fs[i], <<>>, col, fmt)
     ELSE PreviewLocals(fs[i], refData, col, fmt)]

LoopLocals(fs, refData, col, fmt) ==
  [i \in 1..Len(fs) |-> PreviewLocals(fs[i], refData, col, fmt)]

\* a loop that finds the file of an entry by its name
LoopPreviewsByName(fs, ls) ==
  [i \in 1..Len(fs) |->
     PreviewEntry(fs[CHOOSE j \in 1..Len(fs) :
                       /\ fs[j].name = fs[i].name
                       /\ \A k \in 1..(j - 1) : fs[k].name # fs[i].name],
                  ls[i])]

\* the previews array pushed by the loop whose locals are ls
LoopPreviews(fs, ls) == [i \in 1..Len(fs) |-> PreviewEntry(fs[i], ls[i])]

(***************************************************************************)
(* Inputs: the props the component is constructed with                     *)
(***************************************************************************)
MaxRows == 2

RECURSIVE Rep(_, _)
Rep(c, n) == IF n = 0 THEN <<>> ELSE <<c>> \o Rep(c, n - 1)

ColNome == StrNome
ColMatricula == <<"m","a","t","r","i","c","u","l","a">>
ColCodigo == <<"c","o","d","i","g","o">>

\* "Joao Silva" with a tilde on the first a
KeyJoaoSilva == <<"J","o",ATilde,"o"," ","S","i","l","v","a">>
\* 25 code units, and keys at edit distance 10 and 11 from it
Name25 == Rep("a", 25)
Key25At10 == Rep("a", 15) \o Rep("b", 10)
Key25At11 == Rep("a", 14) \o Rep("b", 11)

\* cell values of a name column: person names, long names, and names that
\* look like integers; a sheet draws its values from one of the pools
PersonNames == { KeyJoaoSilva, <<"A","n","a">>, <<"a","n","a">>, <<"a","n","o">> }
LongNames == { Key25At10, Key25At11 }
NumericNames == { <<"3","1","0">>, <<"2","0","0">> }
NamePools == { PersonNames, LongNames, NumericNames }

\* cell values of a code column
CodePool ==
  { <<"1","2","3">>, <<"1","2","3","4">>, <<"1","2","_","a","b">>, <<"1","2">> }

Ext(stem, e) == stem \o <<".">> \o e
ExtPdf == <<"p","d","f">>
ExtTxt == <<"t","x","t">>

FileNamePool ==
  { Ext(<<"J","o","a","o","_","S","i","l","v","a","_","r","e","l","a","t","o","r","i","o">>, ExtPdf),
    Ext(<<"a","n","a">>, ExtPdf),
    Ext(<<"a","n","a",".","m","a","r","i","a">>, ExtPdf),
    Ext(Name25, ExtPdf),
    Ext(<<"3","0","0">>, ExtTxt),
    Ext(<<"1","2","3">>, ExtPdf),
    Ext(<<"1","2","_","a","b">>, ExtPdf),
    Ext(<<"u","n","k","n","o","w","n","_","f","i","l","e">>, ExtPdf),
    Ext(<<"v","a","l","u","e","O","f">>, ExtPdf),
    <<"R","E","A","D","M","E">>,
    <<".","x">> }

FileSizes == {1024}

\* the content of a file, as a tag
FileBytes == {"b0"}

FilePool ==
  {[name |-> n, size |-> z, bytes |-> b] :
     n \in FileNamePool, z \in FileSizes, b \in FileBytes}

SeqsUpTo(S, n) == UNION {[1..k -> S] : k \in 0..n}

\* the component is given no file or one file
FileLists == {<<>>} \cup {<<f>> : f \in FilePool}

\* the value of the second column of the i-th row: "r1", "r2", ...
RowTag(i) == <<"r", DigitSeq[i + 1]>>

\* a sheet whose column header holds the given values; the other of the two
\* columns nome / matricula holds the row tags
MakeSheet(header, values) ==
  [i \in 1..Len(values) |->
     IF header = ColNome
     THEN << <<ColNome, values[i]>>, <<ColMatricula, RowTag(i)>> >>
     ELSE << <<ColNome, RowTag(i)>>, <<ColMatricula, values[i]>> >>]

Sheets ==
  UNION {{MakeSheet(ColNome, v) : v \in SeqsUpTo(P, MaxRows)} : P \in NamePools}
  \cup {MakeSheet(ColMatricula, v) : v \in SeqsUpTo(CodePool, MaxRows)}

MatchColumns == {ColNome, ColMatricula, ColCodigo}

Formats ==
  { <<"{","n","o","m","e","}",".","{","e","x","t","e","n","s","a","o","}">>,
    <<"{","m","a","t","r","i","c","u","l","a","}","_","{","n","o","m","e","}">> }

(***************************************************************************)
(* The component                                                           *)
(***************************************************************************)
\* the messages of src/app/components/ProcessFiles.tsx
ErrProcessingPrefix == "Erro ao processar o arquivo de referencia: "
ErrEmptyReference ==
  <<ErrProcessingPrefix, "Arquivo de referencia vazio ou sem dados validos.">>
ErrColumnMissing(col) ==
  <<ErrProcessingPrefix, "A coluna ", col, " nao existe no arquivo de referencia.">>
ErrNoCorrespondence == <<"Nao foi possivel encontrar correspondencia para este arquivo.">>
NoErrorTsx == <<>>

\* the messages of the error state of the Levenshtein variant; null is <<>>
NoErrorLev == <<>>
ErrReadReference == <<"Erro ao ler o arquivo de referencia.">>
ErrProcessFiles == <<"Erro ao processar os arquivos: ", "Erro ao ler o arquivo.">>

EmptyObject == <<>>

\* null, for the selector's error state
NoSelectorError == <<>>

\* the page and the selector at the time ProcessFiles is mounted: a reference
\* file is present, the selector has reported its columns and is idle, and
\* the wizard is at step 4
MountedPage ==
  /\ referenceFile = TRUE
  /\ availableColumns = <<ColNome, ColMatricula>>
  /\ activeStep = 4
  /\ expandedSteps = {4}
  /\ isLoading = FALSE
  /\ selectedColumn = matchColumn
  /\ hasSelectedInitialColumn = TRUE
  /\ selectorError = NoSelectorError
  /\ columns = availableColumns
  /\ effectRuns = <<>>

\* the state of both variants after construction; the load effect of the
\* Levenshtein variant has run and has set isProcessing
InitState ==
  /\ isProcessing = TRUE
  /\ isDownloading = FALSE
  /\ progress = 0
  /\ commits = <<>>
  /\ referenceData = EmptyObject
  /\ filePreviews = <<>>
  /\ isPreviewReady = FALSE
  /\ locals = <<>>
  /\ error = NoErrorLev
  /\ packed = <<>>
  /\ savedZip = <<>>
  /\ referenceDataTsx = EmptyObject
  /\ filePreviewsTsx = <<>>
  /\ isPreviewReadyTsx = FALSE
  /\ errorTsx = NoErrorTsx
  /\ matchValuesTsx = <<>>

\* in the specifications below at most one read of the reference file is in
\* flight, and isProcessing tells whether one is; the list of reads is used
\* by the specification with overlapping reads only
Init ==
  /\ matchColumn \in MatchColumns
  /\ format \in Formats
  /\ files \in FileLists
  /\ jsonData \in Sheets
  /\ InitState
  /\ loads = <<>>
  /\ MountedPage

\* the effect "atualizar os previews": runs after a render in which one of
\* its dependencies changed
UpdatePreviewsGuard(refData) == Len(ObjectKeys(refData)) # 0

\* reader.onload of loadReferenceData, followed by the updatePreviews effect
\* that the new referenceData triggers
LoadReferenceData ==
  LET refData == BuildRefData(jsonData, matchColumn, 1, EmptyObject)
      ran == Len(files) > 0 \/ UpdatePreviewsGuard(refData)
  IN  /\ isProcessing
      /\ referenceData' = refData
      /\ locals' = IF ran THEN LoopLocals(files, refData, matchColumn, format)
                   ELSE locals
      /\ filePreviews' = IF ran THEN LoopPreviews(files, locals') ELSE filePreviews
      /\ isPreviewReady' = (ran \/ isPreviewReady)
      /\ error' = NoErrorLev
      /\ isProcessing' = FALSE
      /\ UNCHANGED <<props, packed, savedZip, stateTsx, isDownloading, progress,
                     inFlight, pageState, selectorState>>

\* the parent passes a new format: generateNewFilename changes, the
\* updatePreviews effect runs with the reference data loaded so far, and the
\* load effect starts a read of the reference file
FormatChange(f) ==
  /\ f # format
  /\ format' = f
  /\ IF UpdatePreviewsGuard(referenceData)
     THEN /\ locals' = LoopLocals(files, referenceData, matchColumn, f)
          /\ filePreviews' = LoopPreviews(files, locals')
          /\ isPreviewReady' = TRUE
     ELSE UNCHANGED <<filePreviews, locals, isPreviewReady>>
  /\ isProcessing' = TRUE
  /\ error' = NoErrorLev
  /\ UNCHANGED <<matchColumn, files, jsonData, referenceData, packed, savedZip,
                 stateTsx, isDownloading, progress, inFlight, pageState,
                 selectorState>>

Next ==
  \/ LoadReferenceData
  \/ \E f \in Formats : FormatChange(f)

Spec == Init /\ [][Next]_vars

(***************************************************************************)
(* The variant src/app/components/ProcessFiles.tsx                         *)
(***************************************************************************)
\* the separators of nameWithoutExtension.split(/[\s_\-\.]+/)
WordSeparators == {" ", "_", "-", "."}

RECURSIVE Runs(_, _)
\* the maximal runs of units of the class, in order
Runs(s, class) ==
  IF s = <<>> THEN <<>>
  ELSE IF Head(s) \notin class THEN Runs(Tail(s), class)
  ELSE LET run == LeadingRun(s, class)
       IN  <<run>> \o Runs(SubSeq(s, Len(run) + 1, Len(s)), class)

\* the words of split(/[\s_\-\.]+/) that can pass the test word.length > 2
\* (the empty strings split leaves at the ends never pass it)
Words(s) == Runs(s, Range(s) \ WordSeparators)

\* s.match(/\d+/g)
Numbers(s) == Runs(s, Digits)

\* the key a loop over the keys returns: the first of the hits (indexes of the
\* keys that pass the test of the loop), null when there is none
FirstKey(keys, hits) ==
  IF hits = {} THEN Null
  ELSE KeyResult(keys[CHOOSE i \in hits : \A j \in hits : i <= j])

\* the key a loop over items with an inner loop over the keys returns: hits are
\* the pairs <<item index, key index>> that pass the test
FirstOverItems(keys, hits) ==
  LET Before(a, b) == a[1] < b[1] \/ (a[1] = b[1] /\ a[2] <= b[2])
  IN  IF hits = {} THEN Null
      ELSE KeyResult(keys[(CHOOSE a \in hits : \A b \in hits : Before(a, b))[2]])

extractMatchValue(fileName, refData) ==
  LET nameWithoutExtension == NameWithoutExtension(fileName)
      keys == ObjectKeys(refData)
      K == 1..Len(keys)
      words == Words(nameWithoutExtension)
      numbers == Numbers(nameWithoutExtension)
      exact == FirstKey(keys,
                 {k \in K : nameWithoutExtension = keys[k] \/ fileName = keys[k]})
      partial == FirstKey(keys, {k \in K : Includes(nameWithoutExtension, keys[k])})
      byWord == FirstOverItems(keys,
                  {wk \in (1..Len(words)) \X K :
                     LET word == words[wk[1]]
                         key == keys[wk[2]]
                     IN  /\ Len(word) > 2
                         /\ (word = key \/ Includes(key, word) \/ Includes(word, key))})
      byNumber == FirstOverItems(keys,
                    {nk \in (1..Len(numbers)) \X K :
                       LET number == numbers[nk[1]]
                           key == keys[nk[2]]
                       IN  /\ Len(number) >= 3
                           /\ (key = number \/ Includes(key, number))})
  IN  IF ~exact.isNull THEN exact
      ELSE IF ~partial.isNull THEN partial
      ELSE IF ~byWord.isNull THEN byWord
      ELSE byNumber

EndsWith(s, suffix) ==
  Len(suffix) <= Len(s) /\ SubSeq(s, Len(s) - Len(suffix) + 1, Len(s)) = suffix

RECURSIVE ReplaceColumns(_, _, _, _, _)
\* the loop over the placeholders of renameFile: a column the row lacks leaves
\* its placeholder in place
ReplaceColumns(newFileName, placeholders, i, userData, fileExtension) ==
  IF i > Len(placeholders) THEN newFileName
  ELSE LET placeholder == placeholders[i]
           columnName == Substring(placeholder, 1, Len(placeholder) - 1)
           replaced ==
             IF columnName = StrExtensao
             THEN ReplaceFirst(newFileName, placeholder, fileExtension)
             ELSE IF HasOwn(userData, columnName)
             THEN ReplaceFirst(newFileName, placeholder, OwnValue(userData, columnName))
             ELSE newFileName
       IN  ReplaceColumns(replaced, placeholders, i + 1, userData, fileExtension)

\* renameFile for a matchValue that is a key of refData
renameFile(fileName, refData, formatString, matchValue) ==
  LET userData == OwnValue(refData, matchValue)
      \* file.name.split(".").pop() || ""
      fileExtension == SubstringFrom(fileName, LastIndexOf(fileName, ".") + 1)
      newFileName == ReplaceColumns(formatString, Placeholders(formatString, 0), 1,
                                    userData, fileExtension)
  IN  IF ~EndsWith(newFileName, <<".">> \o fileExtension)
      THEN newFileName \o <<".">> \o fileExtension
      ELSE newFileName

RECURSIVE BuildReferenceDataTsx(_, _, _, _)
\* data.forEach(row => { if (!row[matchColumn]) return;
\*                       referenceData[row[matchColumn]] = row })
BuildReferenceDataTsx(rows, col, i, refData) ==
  IF i > Len(rows) THEN refData
  ELSE IF HasOwn(rows[i], col) /\ OwnValue(rows[i], col) # <<>>
  THEN BuildReferenceDataTsx(rows, col, i + 1,
                             SetProperty(refData, OwnValue(rows[i], col), rows[i]))
  ELSE BuildReferenceDataTsx(rows, col, i + 1, refData)

PreviewTsx(file, refData, fmt) ==
  LET matchValue == extractMatchValue(file.name, refData)
  IN  IF matchValue.isNull
      THEN [originalName |-> file.name, newName |-> file.name,
            error |-> ErrNoCorrespondence, size |-> file.size]
      ELSE [originalName |-> file.name,
            newName |-> renameFile(file.name, refData, fmt, matchValue.key),
            error |-> NoErrorTsx, size |-> file.size]

\* the effect that calls generatePreviews, with its guard
GeneratePreviewsTsx(refData, fmt) ==
  IF Len(ObjectKeys(refData)) > 0 /\ Len(files) > 0
  THEN /\ matchValuesTsx' = [i \in 1..Len(files) |->
                               extractMatchValue(files[i].name, refData)]
       /\ filePreviewsTsx' = [i \in 1..Len(files) |-> PreviewTsx(files[i], refData, fmt)]
       /\ isPreviewReadyTsx' = TRUE
  ELSE UNCHANGED <<matchValuesTsx, filePreviewsTsx, isPreviewReadyTsx>>

\* processReferenceFile settles: rejected for an empty sheet or a sheet whose
\* first row lacks the match column, otherwise setReferenceData and the
\* preview effect
ProcessReferenceFileTsx ==
  /\ IF Len(jsonData) = 0 \/ ~HasOwn(jsonData[1], matchColumn)
     THEN /\ errorTsx' = IF Len(jsonData) = 0 THEN ErrEmptyReference
                         ELSE ErrColumnMissing(matchColumn)
          /\ filePreviewsTsx' = <<>>
          /\ isPreviewReadyTsx' = FALSE
          /\ UNCHANGED <<referenceDataTsx, matchValuesTsx>>
     ELSE /\ referenceDataTsx' =
               BuildReferenceDataTsx(jsonData, matchColumn, 1, EmptyObject)
          /\ GeneratePreviewsTsx(referenceDataTsx', format)
          /\ UNCHANGED errorTsx
  /\ UNCHANGED <<props, stateLev, commitLev, flagsLev, inFlight, pageState,
                 selectorState>>

\* the parent passes a new format: generatePreviews changes and its effect runs
FormatChangeTsx(f) ==
  /\ f # format
  /\ format' = f
  /\ GeneratePreviewsTsx(referenceDataTsx, f)
  /\ UNCHANGED <<matchColumn, files, jsonData, referenceDataTsx, errorTsx, stateLev,
                 commitLev, flagsLev, inFlight, pageState, selectorState>>

NextTsx ==
  \/ ProcessReferenceFileTsx
  \/ \E f \in Formats : FormatChangeTsx(f)

SpecTsx == Init /\ [][NextTsx]_vars

(***************************************************************************)
(* Batches of files: commit (processFiles) and failed reads of the         *)
(* reference file                                                          *)
(***************************************************************************)
MaxFiles == 2

StrAna == <<"a","n","a">>
StrReadme == <<"R","E","A","D","M","E">>
StrReport == <<"r","e","p","o","r","t">>
ExtCsvUpper == <<"C","S","V">>

\* a sheet with three rows: a value that reads like a placeholder, a plain
\* value, and a value with a character that is illegal in file names
BatchSheet ==
  << << <<ColNome, StrAna>>, <<ColMatricula, <<"{","n","o","m","e","}">> >> >>,
     << <<ColNome, StrReadme>>, <<ColMatricula, <<"7">> >> >>,
     << <<ColNome, StrReport>>, <<ColMatricula, <<"A","/","B">> >> >> >>

\* a sheet whose only row has an empty nome
BlankNameSheet == << << <<ColNome, <<>> >>, <<ColMatricula, <<"7">> >> >> >>

BatchSheets == {BatchSheet, BlankNameSheet}

FmtMatriculaNome ==
  <<"{","m","a","t","r","i","c","u","l","a","}","_","{","n","o","m","e","}">>
FmtNomeTurma == <<"{","n","o","m","e","}","-","{","t","u","r","m","a","}">>

BatchFormats == {FmtMatriculaNome, FmtNomeTurma}
BatchFormatsTsx == {TokenExtensao, FmtMatriculaNome, FmtNomeTurma}

FileAna == [name |-> Ext(StrAna, ExtPdf), size |-> 1024, bytes |-> "b1"]
FileAnaAgain == [name |-> Ext(StrAna, ExtPdf), size |-> 2048, bytes |-> "b2"]
FileReadme == [name |-> StrReadme, size |-> 512, bytes |-> "b3"]
FileReport == [name |-> Ext(StrReport, ExtCsvUpper), size |-> 4096, bytes |-> "b4"]
FileUnknown ==
  [name |-> Ext(<<"u","n","k","n","o","w","n","_","f","i","l","e">>, ExtPdf),
   size |-> 256, bytes |-> "b5"]
FileValueOf ==
  [name |-> Ext(<<"v","a","l","u","e","O","f">>, ExtPdf), size |-> 128, bytes |-> "b6"]

\* two files named ana.pdf with different contents, a file no row matches,
\* and a file named after a member of Object.prototype
BatchFilePool == {FileAna, FileAnaAgain, FileUnknown, FileValueOf}

\* a file without '.', a file with an upper-case extension, a file that
\* matches a row, and a file no row matches
BatchFilePoolTsx == {FileReadme, FileReport, FileAna, FileUnknown}

InitBatch ==
  /\ matchColumn \in {ColNome, ColMatricula}
  /\ format \in BatchFormats
  /\ files \in SeqsUpTo(BatchFilePool, MaxFiles)
  /\ jsonData \in BatchSheets
  /\ InitState
  /\ loads = <<>>
  /\ MountedPage

InitBatchTsx ==
  /\ matchColumn \in {ColNome, ColMatricula}
  /\ format \in BatchFormatsTsx
  /\ files \in SeqsUpTo(BatchFilePoolTsx, MaxFiles)
  /\ jsonData \in BatchSheets
  /\ InitState
  /\ loads = <<>>
  /\ MountedPage

\* reader.onerror of loadReferenceData
ReadError ==
  /\ isProcessing
  /\ error' = ErrReadReference
  /\ isProcessing' = FALSE
  /\ UNCHANGED <<props, stateLev, packed, savedZip, stateTsx, isDownloading,
                 progress, inFlight, pageState, selectorState>>

\* the name processFiles derives for a file
CommitName(file, refData, col, fmt) ==
  LET identifier == extractIdentifierFromFilename(file.name, col)
      fileRefData == ResolveFile(identifier, refData, col).fileRefData
  IN  generateNewFilename(file.name, fileRefData, fmt).newName

\* zip.file(name, content): an entry of that name is replaced in place
ZipFile(zip, name, content) ==
  IF \E i \in 1..Len(zip) : zip[i].name = name
  THEN [i \in 1..Len(zip) |->
          IF zip[i].name = name THEN [name |-> name, bytes |-> content] ELSE zip[i]]
  ELSE Append(zip, [name |-> name, bytes |-> content])

RECURSIVE ZipAll(_, _, _)
\* the archive after the calls from the i-th on
ZipAll(calls, i, zip) ==
  IF i > Len(calls) THEN zip
  ELSE ZipAll(calls, i + 1, ZipFile(zip, calls[i].name, calls[i].bytes))

\* Math.round((processed / total) * 100)
Percent(processed, total) == (200 * processed + total) \div (2 * total)

\* the download button is rendered and not disabled
ButtonEnabled == isPreviewReady /\ Len(filePreviews) > 0 /\ ~isProcessing

\* processFiles, from the click to its return with no other handler in
\* between; readsResolve tells whether every readFileAsArrayBuffer
\* resolves: when one rejects nothing is saved, and the progress is that of
\* the files read before it
processFiles(readsResolve) ==
  /\ ButtonEnabled
  /\ Len(files) # 0
  /\ isPreviewReady
  /\ LET calls == [i \in 1..Len(files) |->
                     [name |-> CommitName(files[i], referenceData, matchColumn, format),
                      bytes |-> files[i].bytes]]
     IN  IF readsResolve
         THEN /\ packed' = calls
              /\ savedZip' = ZipAll(calls, 1, <<>>)
              /\ error' = NoErrorLev
              /\ progress' = Percent(Len(files), Len(files))
         ELSE /\ error' = ErrProcessFiles
              /\ progress' \in {Percent(k, Len(files)) : k \in 0..(Len(files) - 1)}
              /\ UNCHANGED <<packed, savedZip>>
  /\ isProcessing' = FALSE
  /\ isDownloading' = FALSE
  /\ UNCHANGED <<props, stateLev, stateTsx, inFlight, pageState, selectorState>>

NextBatch ==
  \/ LoadReferenceData
  \/ \E f \in BatchFormats : FormatChange(f)
  \/ ReadError
  \/ \E readsResolve \in BOOLEAN : processFiles(readsResolve)

SpecBatch == InitBatch /\ [][NextBatch]_vars

\* fileReader.onerror of processReferenceFile: the promise rejects and the
\* effect that awaits it records the error and clears the previews
ErrReadReferenceTsx == <<"Erro ao ler o arquivo de referencia.">>

ReadErrorTsx ==
  /\ errorTsx' = ErrReadReferenceTsx
  /\ filePreviewsTsx' = <<>>
  /\ isPreviewReadyTsx' = FALSE
  /\ UNCHANGED <<props, stateLev, commitLev, referenceDataTsx, matchValuesTsx,
                 flagsLev, inFlight, pageState, selectorState>>

NextBatchTsx ==
  \/ ProcessReferenceFileTsx
  \/ \E f \in BatchFormatsTsx : FormatChangeTsx(f)
  \/ ReadErrorTsx

SpecBatchTsx == InitBatchTsx /\ [][NextBatchTsx]_vars

(***************************************************************************)
(* The Levenshtein variant step by step: reads of the reference file and   *)
(* runs of processFiles overlap, and each settles with the values its      *)
(* closure captured when it was started                                    *)
(***************************************************************************)
\* reads of the reference file and runs of processFiles in flight at once,
\* counted together
MaxInFlight == 2

\* one more read or run may be started
MayStart == Len(loads) + Len(commits) < MaxInFlight

RemoveAt(seq, k) == [i \in 1..(Len(seq) - 1) |-> IF i < k THEN seq[i] ELSE seq[i + 1]]

\* the values the callbacks of one run of loadReferenceData close over
LoadClosure(col, fmt) ==
  [matchColumn |-> col, format |-> fmt, files |-> files, jsonData |-> jsonData]

\* the body of the load effect up to reader.readAs...: the flags, and one
\* more read in flight
loadReferenceData(col, fmt) ==
  /\ isProcessing' = TRUE
  /\ error' = NoErrorLev
  /\ loads' = Append(loads, LoadClosure(col, fmt))

\* the updatePreviews effect, run with the props of the current render
updatePreviews(refData, col, fmt) ==
  IF UpdatePreviewsGuard(refData)
  THEN /\ locals' = LoopLocals(files, refData, col, fmt)
       /\ filePreviews' = LoopPreviews(files, locals')
       /\ isPreviewReady' = TRUE
  ELSE UNCHANGED <<filePreviews, locals, isPreviewReady>>

\* the parent renders the component with a new format: both effects run
RenderWithFormat(f) ==
  /\ f # format
  /\ MayStart
  /\ format' = f
  /\ loadReferenceData(matchColumn, f)
  /\ updatePreviews(referenceData, matchColumn, f)
  /\ UNCHANGED <<matchColumn, files, jsonData, referenceData, packed, savedZip,
                 stateTsx, isDownloading, progress, commits, pageState,
                 selectorState>>

\* the parent renders the component with a new match column: both effects run
RenderWithMatchColumn(c) ==
  /\ c # matchColumn
  /\ MayStart
  /\ matchColumn' = c
  /\ loadReferenceData(c, format)
  /\ updatePreviews(referenceData, c, format)
  /\ UNCHANGED <<format, files, jsonData, referenceData, packed, savedZip,
                 stateTsx, isDownloading, progress, commits, pageState,
                 selectorState>>

\* reader.onload of the k-th read in flight: the reference data and the
\* previews built from the closure, then the updatePreviews effect that the
\* new referenceData triggers with the props of the current render
onload(k) ==
  LET l == loads[k]
      refData == BuildRefData(l.jsonData, l.matchColumn, 1, EmptyObject)
  IN  /\ referenceData' = refData
      /\ IF UpdatePreviewsGuard(refData)
         THEN updatePreviews(refData, matchColumn, format)
         ELSE IF Len(l.files) > 0
         THEN /\ locals' = LoopLocals(l.files, refData, l.matchColumn, l.format)
              /\ filePreviews' = LoopPreviews(l.files, locals')
              /\ isPreviewReady' = TRUE
         ELSE UNCHANGED <<filePreviews, locals, isPreviewReady>>
      /\ isProcessing' = FALSE
      /\ loads' = RemoveAt(loads, k)
      /\ UNCHANGED <<props, commitLev, stateTsx, isDownloading, progress, commits,
                     pageState, selectorState>>

\* reader.onerror of the k-th read in flight
onerror(k) ==
  /\ error' = ErrReadReference
  /\ isProcessing' = FALSE
  /\ loads' = RemoveAt(loads, k)
  /\ UNCHANGED <<props, stateLev, packed, savedZip, stateTsx, isDownloading,
                 progress, commits, pageState, selectorState>>

\* a click on the download button: processFiles up to its first await
ClickDownload ==
  /\ ButtonEnabled
  /\ Len(files) # 0
  /\ isPreviewReady
  /\ MayStart
  /\ isProcessing' = TRUE
  /\ progress' = 0
  /\ error' = NoErrorLev
  /\ isDownloading' = TRUE
  /\ commits' = Append(commits, [files |-> files, referenceData |-> referenceData,
                                 matchColumn |-> matchColumn, format |-> format,
                                 calls |-> <<>>])
  /\ UNCHANGED <<props, stateLev, packed, savedZip, stateTsx, loads, pageState,
                 selectorState>>

\* readFileAsArrayBuffer resolves in the c-th run of processFiles: zip.file,
\* processed++ and setProgress
ReadResolves(c) ==
  LET run == commits[c]
      i == Len(run.calls) + 1
  IN  /\ i <= Len(run.files)
      /\ commits' = [commits EXCEPT ![c].calls = Append(@,
                       [name |-> CommitName(run.files[i], run.referenceData,
                                            run.matchColumn, run.format),
                        bytes |-> run.files[i].bytes])]
      /\ progress' = Percent(i, Len(run.files))
      /\ UNCHANGED <<props, stateLev, commitLev, stateTsx, isProcessing,
                     isDownloading, loads, pageState, selectorState>>

\* a catch that saves the files packaged so far
ReadRejectsSavingPartial(c) ==
  /\ Len(commits[c].calls) < Len(commits[c].files)
  /\ error' = ErrProcessFiles
  /\ packed' = commits[c].calls
  /\ savedZip' = ZipAll(commits[c].calls, 1, <<>>)
  /\ isDownloading' = FALSE
  /\ isProcessing' = FALSE
  /\ commits' = RemoveAt(commits, c)
  /\ UNCHANGED <<props, stateLev, stateTsx, progress, loads, pageState,
                 selectorState>>

\* readFileAsArrayBuffer rejects in the c-th run: the catch and the finally
ReadRejects(c) ==
  /\ Len(commits[c].calls) < Len(commits[c].files)
  /\ error' = ErrProcessFiles
  /\ isDownloading' = FALSE
  /\ isProcessing' = FALSE
  /\ commits' = RemoveAt(commits, c)
  /\ UNCHANGED <<props, stateLev, packed, savedZip, stateTsx, progress, loads,
                 pageState, selectorState>>

\* zip.generateAsync resolves in the c-th run: saveAs, and the flags
ZipGenerated(c) ==
  /\ Len(commits[c].calls) = Len(commits[c].files)
  /\ packed' = commits[c].calls
  /\ savedZip' = ZipAll(commits[c].calls, 1, <<>>)
  /\ isDownloading' = FALSE
  /\ isProcessing' = FALSE
  /\ commits' = RemoveAt(commits, c)
  /\ UNCHANGED <<props, stateLev, error, stateTsx, progress, loads, pageState,
                 selectorState>>

\* a file that matches a row, alone and after a file named after a member of
\* Object.prototype
InterleavedFileLists == {<<FileAna>>, <<FileValueOf, FileAna>>}

\* after construction the read started by the load effect is in flight
InitInterleaved ==
  /\ matchColumn \in {ColNome, ColMatricula}
  /\ format \in BatchFormats
  /\ files \in InterleavedFileLists
  /\ jsonData \in BatchSheets
  /\ InitState
  /\ loads = <<LoadClosure(matchColumn, format)>>
  /\ MountedPage

NextInterleaved ==
  \/ \E f \in BatchFormats : RenderWithFormat(f)
  \/ \E c \in {ColNome, ColMatricula} : RenderWithMatchColumn(c)
  \/ \E k \in 1..Len(loads) : onload(k)
  \/ \E k \in 1..Len(loads) : onerror(k)
  \/ ClickDownload
  \/ \E c \in 1..Len(commits) : ReadResolves(c)
  \/ \E c \in 1..Len(commits) : ReadRejects(c)
  \/ \E c \in 1..Len(commits) : ZipGenerated(c)

SpecInterleaved == InitInterleaved /\ [][NextInterleaved]_vars

\* a commit step by step with the props held fixed: the read started by the
\* first render settles, then the button is clicked
InitCommit ==
  /\ matchColumn \in {ColNome, ColMatricula}
  /\ format \in BatchFormats
  /\ files \in SeqsUpTo(BatchFilePool, MaxFiles)
  /\ jsonData \in BatchSheets
  /\ InitState
  /\ loads = <<LoadClosure(matchColumn, format)>>
  /\ MountedPage

NextCommit ==
  \/ \E k \in 1..Len(loads) : onload(k)
  \/ \E k \in 1..Len(loads) : onerror(k)
  \/ ClickDownload
  \/ \E c \in 1..Len(commits) : ReadResolves(c)
  \/ \E c \in 1..Len(commits) : ReadRejects(c)
  \/ \E c \in 1..Len(commits) : ZipGenerated(c)

SpecCommit == InitCommit /\ [][NextCommit]_vars

(***************************************************************************)
(* Building the reference index: sheets with padded, repeated, blank and   *)
(* whitespace-only values, and a match column that no row has              *)
(***************************************************************************)
StrBia == <<"b","i","a">>

\* cell values of the nome column
IndexValues ==
  { StrAna, <<" ">> \o StrAna, StrAna \o <<" ">>, StrBia, <<" ">>, <<>> }

IndexSheets == {MakeSheet(ColNome, v) : v \in SeqsUpTo(IndexValues, MaxRows)}

IndexFileLists == {<<>>, <<FileAna>>, <<FileUnknown, FileAna>>}

\* ColCodigo is a column of no sheet
InitIndex ==
  /\ matchColumn \in {ColNome, ColCodigo}
  /\ format = FmtMatriculaNome
  /\ files \in IndexFileLists
  /\ jsonData \in IndexSheets
  /\ InitState
  /\ loads = <<>>
  /\ MountedPage

NextIndex ==
  \/ LoadReferenceData
  \/ ProcessReferenceFileTsx

SpecIndex == InitIndex /\ [][NextIndex]_vars

(***************************************************************************)
(* The extractor on file names that carry a code                           *)
(***************************************************************************)
Stem111x222 == <<"1","1","1","_","x","_","2","2","2">>
StemNome12345 == <<"N","o","m","e","_","1","2","3","4","5">>
StemAB12x == <<"A","B","1","2","_","x">>
Stem12345 == <<"1","2","3","4","5">>
Stem12Nome == <<"1","2"," ","-"," ","N","o","m","e">>

CodeStems == {Stem111x222, StemNome12345, StemAB12x, Stem12345, Stem12Nome}

\* each stem as the name of a file, with and without an extension
CodeFilePool ==
  {[name |-> Ext(st, ExtPdf), size |-> 1024, bytes |-> "b0"] : st \in CodeStems}
  \cup {[name |-> st, size |-> 1024, bytes |-> "b0"] : st \in CodeStems}

CodeSheets == {MakeSheet(ColMatricula, v) : v \in SeqsUpTo({Stem12345}, MaxRows)}

InitExtract ==
  /\ matchColumn \in MatchColumns
  /\ format = FmtMatriculaNome
  /\ files \in {<<f>> : f \in CodeFilePool}
  /\ jsonData \in CodeSheets
  /\ InitState
  /\ loads = <<>>
  /\ MountedPage

NextExtract == LoadReferenceData

SpecExtract == InitExtract /\ [][NextExtract]_vars

(***************************************************************************)
(* The page (wizard) and ReferenceColumnSelector.  The state of            *)
(* ProcessFiles is not followed here.  A run of the selector's load effect *)
(* is kept while its timer or its read is pending; a run that was cleaned  *)
(* up is dropped, since isMounted is false in all its callbacks.           *)
(***************************************************************************)
\* U+00ED (i with acute), U+00F3 (o with acute)
IAcute == "i'"
OAcute == "o'"

possibleMatchColumns ==
  { <<"i","d">>, ColMatricula, <<"m","a","t","r",IAcute,"c","u","l","a">>,
    <<"c",OAcute,"d","i","g","o">>, ColCodigo,
    <<"r","e","g","i","s","t","r","o">>,
    <<"i","d","e","n","t","i","f","i","c","a","d","o","r">>,
    <<"c","h","a","v","e">> }

\* a sheet whose rows have the column nome only
OnlyNomeSheet == << << <<ColNome, StrAna>> >> >>

\* contents of the reference file: two columns, one column, no rows
ReferenceContents == {BatchSheet, OnlyNomeSheet, <<>>}

ErrNoData == <<"Nenhum dado encontrado no arquivo de referencia.">>
ErrSelectorRead == <<"Erro ao processar o arquivo: ", "Erro ao ler o arquivo.">>

\* useState defaults of ProcessFiles
ProcessFilesDefaults ==
  /\ referenceData = EmptyObject
  /\ filePreviews = <<>>
  /\ isPreviewReady = FALSE
  /\ locals = <<>>
  /\ error = NoErrorLev
  /\ packed = <<>>
  /\ savedZip = <<>>
  /\ referenceDataTsx = EmptyObject
  /\ filePreviewsTsx = <<>>
  /\ isPreviewReadyTsx = FALSE
  /\ errorTsx = NoErrorTsx
  /\ matchValuesTsx = <<>>
  /\ isProcessing = FALSE
  /\ isDownloading = FALSE
  /\ progress = 0
  /\ loads = <<>>
  /\ commits = <<>>

\* useState defaults of ReferenceColumnSelector
SelectorDefaults ==
  [isLoading |-> FALSE, selectedColumn |-> <<>>, hasSelectedInitialColumn |-> FALSE,
   selectorError |-> NoSelectorError, columns |-> <<>>]

\* useState defaults of the page; no selector is mounted
InitPage ==
  /\ files = <<>>
  /\ referenceFile = FALSE
  /\ jsonData = <<>>
  /\ format = <<>>
  /\ matchColumn = <<>>
  /\ availableColumns = <<>>
  /\ activeStep = 1
  /\ expandedSteps = {1}
  /\ isLoading = SelectorDefaults.isLoading
  /\ selectedColumn = SelectorDefaults.selectedColumn
  /\ hasSelectedInitialColumn = SelectorDefaults.hasSelectedInitialColumn
  /\ selectorError = SelectorDefaults.selectorError
  /\ columns = SelectorDefaults.columns
  /\ effectRuns = <<>>
  /\ ProcessFilesDefaults

processFilesState == <<stateLev, commitLev, stateTsx, flagsLev, inFlight>>

canProceedToStep(step) ==
  CASE step = 1 -> TRUE
    [] step = 2 -> referenceFile /\ Len(files) > 0
    [] step = 3 -> matchColumn # <<>> /\ Len(availableColumns) > 0
    [] step = 4 -> format # <<>>
    [] OTHER -> FALSE

handleStepChange(step) ==
  /\ step >= 1 /\ step <= 4 /\ canProceedToStep(step)
  /\ activeStep' = step
  /\ expandedSteps' = {step}
  /\ UNCHANGED <<props, referenceFile, availableColumns, selectorState,
                 processFilesState>>

handleFilesUploaded(newFiles) ==
  /\ newFiles # files
  /\ files' = newFiles
  /\ UNCHANGED <<matchColumn, format, jsonData, pageState, selectorState,
                 processFilesState>>

\* FormatConfigurator is rendered once a column is chosen
handleFormatChange(newFormat) ==
  /\ matchColumn # <<>> /\ Len(availableColumns) > 0
  /\ newFormat # format
  /\ format' = newFormat
  /\ UNCHANGED <<matchColumn, files, jsonData, pageState, selectorState,
                 processFilesState>>

\* a run of the load effect: setTimeout(..., 200) and readExcelFile pending
StartedRun == <<[timer |-> TRUE, read |-> TRUE]>>

\* the run after its read has settled
SettledRun == IF effectRuns[1].timer THEN <<[timer |-> TRUE, read |-> FALSE]>> ELSE <<>>

\* handleReferenceFileUploaded with a file: the selector is mounted, or its
\* load effect runs again for the new file
handleReferenceFileUploaded(rows) ==
  /\ referenceFile' = TRUE
  /\ jsonData' = rows
  /\ IF referenceFile
     THEN UNCHANGED <<isLoading, selectedColumn, hasSelectedInitialColumn, columns>>
     ELSE /\ isLoading' = SelectorDefaults.isLoading
          /\ selectedColumn' = SelectorDefaults.selectedColumn
          /\ hasSelectedInitialColumn' = SelectorDefaults.hasSelectedInitialColumn
          /\ columns' = SelectorDefaults.columns
  /\ selectorError' = NoSelectorError
  /\ effectRuns' = StartedRun
  /\ UNCHANGED <<matchColumn, format, files, availableColumns, activeStep,
                 expandedSteps, processFilesState>>

\* handleReferenceFileUploaded with null (removeReferenceFile): the selector
\* is unmounted and its effect cleaned up
removeReferenceFile ==
  /\ referenceFile
  /\ referenceFile' = FALSE
  /\ jsonData' = <<>>
  /\ activeStep' = 1
  /\ expandedSteps' = {1}
  /\ isLoading' = SelectorDefaults.isLoading
  /\ selectedColumn' = SelectorDefaults.selectedColumn
  /\ hasSelectedInitialColumn' = SelectorDefaults.hasSelectedInitialColumn
  /\ selectorError' = SelectorDefaults.selectorError
  /\ columns' = SelectorDefaults.columns
  /\ effectRuns' = <<>>
  /\ UNCHANGED <<matchColumn, format, files, availableColumns, processFilesState>>

\* the callback of setTimeout(..., 200): if (isMounted) setIsLoading(true)
loadingTimeout ==
  /\ effectRuns # <<>>
  /\ effectRuns[1].timer
  /\ isLoading' = TRUE
  /\ effectRuns' = IF effectRuns[1].read THEN <<[timer |-> FALSE, read |-> TRUE]>>
                   ELSE <<>>
  /\ UNCHANGED <<props, pageState, selectedColumn, hasSelectedInitialColumn,
                 selectorError, columns, processFilesState>>

isColumnValid(col, columnList) == col # <<>> /\ col \in Range(columnList)

\* columnNames.find(col => possibleMatchColumns.includes(col.toLowerCase())),
\* else columnNames[0]
InitialColumn(columnNames) ==
  LET hits == {i \in 1..Len(columnNames) :
                 ToLowerCase(columnNames[i]) \in possibleMatchColumns}
  IN  IF hits # {} THEN columnNames[CHOOSE i \in hits : \A j \in hits : i <= j]
      ELSE columnNames[1]

\* readExcelFile resolves in the live run; when the selected column changes
\* the effect is cleaned up and runs again
readExcelFileResolves ==
  /\ effectRuns # <<>>
  /\ effectRuns[1].read
  /\ IF Len(jsonData) > 0
     THEN LET columnNames == ObjectKeys(jsonData[1])
          IN  /\ columns' = columnNames
              /\ availableColumns' = columnNames
              /\ IF ~hasSelectedInitialColumn
                    \/ ~isColumnValid(selectedColumn, columnNames)
                 THEN /\ selectedColumn' = InitialColumn(columnNames)
                      /\ matchColumn' = InitialColumn(columnNames)
                      /\ hasSelectedInitialColumn' = TRUE
                 ELSE UNCHANGED <<selectedColumn, matchColumn, hasSelectedInitialColumn>>
              /\ selectorError' = NoSelectorError
     ELSE /\ selectorError' = ErrNoData
          /\ UNCHANGED <<columns, availableColumns, selectedColumn, matchColumn,
                         hasSelectedInitialColumn>>
  /\ isLoading' = FALSE
  /\ effectRuns' =
       IF selectedColumn' # selectedColumn
          \/ hasSelectedInitialColumn' # hasSelectedInitialColumn
       THEN StartedRun ELSE SettledRun
  /\ UNCHANGED <<format, files, jsonData, referenceFile, activeStep, expandedSteps,
                 processFilesState>>

\* readExcelFile rejects in the live run
readExcelFileRejects ==
  /\ effectRuns # <<>>
  /\ effectRuns[1].read
  /\ selectorError' = ErrSelectorRead
  /\ isLoading' = FALSE
  /\ effectRuns' = SettledRun
  /\ UNCHANGED <<props, pageState, selectedColumn, hasSelectedInitialColumn, columns,
                 processFilesState>>

\* the user picks a column in the select, which is rendered when the selector
\* is neither loading nor showing an error
handleColumnChange(column) ==
  /\ referenceFile
  /\ ~isLoading
  /\ selectorError = NoSelectorError
  /\ column \in Range(columns)
  /\ selectedColumn' = column
  /\ hasSelectedInitialColumn' = TRUE
  /\ matchColumn' = column
  /\ IF column # selectedColumn \/ ~hasSelectedInitialColumn
     THEN effectRuns' = StartedRun
     ELSE UNCHANGED effectRuns
  /\ UNCHANGED <<format, files, jsonData, pageState, isLoading, selectorError,
                 columns, processFilesState>>

PageFileLists == {<<>>, <<FileAna>>}
PageFormats == {<<>>, FmtMatriculaNome}
StepRequests == 0..5

NextPage ==
  \/ \E step \in StepRequests : handleStepChange(step)
  \/ \E newFiles \in PageFileLists : handleFilesUploaded(newFiles)
  \/ \E newFormat \in PageFormats : handleFormatChange(newFormat)
  \/ \E rows \in ReferenceContents : handleReferenceFileUploaded(rows)
  \/ removeReferenceFile
  \/ loadingTimeout
  \/ readExcelFileResolves
  \/ readExcelFileRejects
  \/ \E column \in {ColNome, ColMatricula} : handleColumnChange(column)

SpecPage == InitPage /\ [][NextPage]_vars

(***************************************************************************)
(* Properties                                                              *)
(***************************************************************************)
\* the keys of the reference map
OwnKeys == Range(InsertionKeys(referenceData))

\* edit distance between the comparison forms of an identifier and a key
Dist(identifier, key) ==
  Levenshtein(NormalizeForMatch(identifier), NormalizeForMatch(key))

\* position of a key in a sequence of keys
PositionIn(keys, k) == CHOOSE i \in 1..Len(keys) : keys[i] = k

\* the files of the last preview pass
Passed == 1..Len(locals)

\* C1: a candidate key that is itself a key of the index resolves to the row
\* stored under exactly that key, whatever other keys the index holds (exact
\* lookup comes before every fuzzy strategy).
C1_ExactKeyWins ==
  \A i \in Passed :
    locals[i].identifier \in OwnKeys
      => /\ locals[i].fileRefData
              = OwnRow(OwnValue(referenceData, locals[i].identifier))
         /\ locals[i].matchedIdentifier = locals[i].identifier

\* C1 witness: the candidate is a key, the column is name-like, and an earlier
\* key of the index has the same comparison form (edit distance 0)
C1_Witness ==
  \E i \in Passed :
    /\ IsNameColumn(matchColumn)
    /\ locals[i].identifier \in OwnKeys
    /\ \E k \in OwnKeys :
         /\ k # locals[i].identifier
         /\ Dist(locals[i].identifier, k) = 0
         /\ PositionIn(ObjectKeys(referenceData), k)
              < PositionIn(ObjectKeys(referenceData), locals[i].identifier)
    /\ locals[i].fileRefData.kind = "row"

LoadKey(row) ==
  IF HasOwn(row, matchColumn) THEN Trim(OwnValue(row, matchColumn)) ELSE <<>>

\* the first row of the sheet that carries the key
FirstLoaded(k) ==
  CHOOSE r \in 1..Len(jsonData) :
    LoadKey(jsonData[r]) = k /\ \A q \in 1..(r - 1) : LoadKey(jsonData[q]) # k

\* the edit-distance strategy produced the match of file i
FuzzyMatched(i) ==
  /\ IsNameColumn(matchColumn)
  /\ ~Truthy(GetProperty(referenceData, locals[i].identifier))
  /\ locals[i].fileRefData.kind = "row"

\* C5 (as claimed): the key returned by the edit-distance strategy has the
\* minimum distance among all keys and, among the keys at that distance, is the
\* one whose row was loaded first.
C5_FirstLoadedMinimum ==
  \A i \in Passed :
    FuzzyMatched(i)
      => LET id == locals[i].identifier
             m == locals[i].matchedIdentifier
         IN  /\ \A k \in OwnKeys : Dist(id, m) <= Dist(id, k)
             /\ \A k \in OwnKeys :
                  Dist(id, k) = Dist(id, m) => FirstLoaded(m) <= FirstLoaded(k)

\* some key is in a containment relation with the candidate of file i, in
\* comparison form
Contained(i, k) ==
  \/ Includes(NormalizeForMatch(locals[i].identifier), NormalizeForMatch(k))
  \/ Includes(NormalizeForMatch(k), NormalizeForMatch(locals[i].identifier))

\* exact and normalized-exact lookup both fail for file i of a name column
LookupsFail(i) ==
  /\ IsNameColumn(matchColumn)
  /\ ~Truthy(GetProperty(referenceData, locals[i].identifier))
  /\ \A k \in OwnKeys : Dist(locals[i].identifier, k) # 0

\* C6 (as claimed): when the lookups fail and some key is contained in the
\* (non-empty) candidate or contains it, the file is matched to the first such
\* key in load order, however large the edit distance.
C6_ContainmentMatches ==
  \A i \in Passed :
    (/\ LookupsFail(i)
     /\ locals[i].identifier # <<>>
     /\ \E k \in OwnKeys : Contained(i, k))
      => /\ locals[i].fileRefData.kind = "row"
         /\ Contained(i, locals[i].matchedIdentifier)
         /\ \A k \in OwnKeys :
              Contained(i, k)
                => FirstLoaded(locals[i].matchedIdentifier) <= FirstLoaded(k)

\* Scenario B: column "nome", one row whose nome is "Joao Silva" (with tilde),
\* file "Joao_Silva_relatorio.pdf", after the preview pass
StemJoaoRelatorio ==
  <<"J","o","a","o","_","S","i","l","v","a","_","r","e","l","a","t","o","r","i","o">>

ScenarioB ==
  /\ matchColumn = ColNome
  /\ jsonData = MakeSheet(ColNome, <<KeyJoaoSilva>>)
  /\ Len(files) = 1
  /\ files[1].name = Ext(StemJoaoRelatorio, ExtPdf)
  /\ Len(locals) = 1

\* C7 (as claimed): in Scenario B the candidate is the full stem and the file
\* is matched to the "Joao Silva" row.
C7_ScenarioBMatches ==
  ScenarioB
    => /\ locals[1].identifier = StemJoaoRelatorio
       /\ locals[1].fileRefData = OwnRow(jsonData[1])

\* C8 (as claimed): the stem is the part of the filename before its last '.',
\* and the whole filename when it has no '.'.
C8_StemOfFilename ==
  \A i \in Passed :
    LET name == files[i].name
        dots == {p \in 1..Len(name) : name[p] = "."}
    IN  locals[i].nameWithoutExtension
          = IF dots = {} THEN name
            ELSE SubSeq(name, 1, (CHOOSE p \in dots : \A q \in dots : q <= p) - 1)

\* C9 (as claimed): the extractor returns a non-empty string for every
\* non-empty filename and every match column.
C9_IdentifierNonEmpty ==
  \A i \in Passed : Len(files[i].name) > 0 => Len(locals[i].identifier) > 0

\* C10 (as claimed): a preview entry carries the not-found error exactly when
\* no reference row was resolved for the file, and then keeps the original name.
C10_ErrorIffNoRow ==
  \A i \in Passed :
    /\ filePreviews[i].error.present <=> (locals[i].fileRefData.kind # "row")
    /\ locals[i].fileRefData.kind # "row"
         => /\ filePreviews[i].newName = filePreviews[i].originalName
            /\ filePreviews[i].error.message = ErrReferenceNotFound

\* C3 (as claimed): for a code-like column, a file whose stem is exactly a key
\* of the index resolves to the row stored under that key.
C3_StemRoundTrip ==
  \A i \in Passed :
    (~IsNameColumn(matchColumn) /\ locals[i].nameWithoutExtension \in OwnKeys)
      => locals[i].fileRefData
           = OwnRow(OwnValue(referenceData, locals[i].nameWithoutExtension))

\* C2 (as claimed): for a code-like column a file is matched only when its
\* candidate key is exactly a key of the index.  Stated for the preview loop of
\* ProcessFiles.tsx, whose candidates are the stem and the name of the file.
C2_CodeColumnExactOnly ==
  \A i \in 1..Len(matchValuesTsx) :
    (~IsNameColumn(matchColumn) /\ ~matchValuesTsx[i].isNull)
      => \/ NameWithoutExtension(files[i].name) = matchValuesTsx[i].key
         \/ files[i].name = matchValuesTsx[i].key

(***************************************************************************)
(* Properties of the renderer                                              *)
(***************************************************************************)
\* the extension as the specification has it: from the last '.' to the end,
\* empty when the name has no '.'
ClaimedExtension(name) ==
  LET dots == {p \in 1..Len(name) : name[p] = "."}
  IN  IF dots = {} THEN <<>>
      ELSE SubSeq(name, CHOOSE p \in dots : \A q \in dots : q <= p, Len(name))

\* the end of the placeholder that starts at the head of fmt ('{', one or more
\* units other than '}', then '}'); 0 when the head starts none
TokenEnd(fmt) ==
  IF Len(fmt) >= 3 /\ fmt[1] = "{" /\ fmt[2] # "}"
     /\ \E j \in 3..Len(fmt) : fmt[j] = "}"
  THEN CHOOSE j \in 3..Len(fmt) : fmt[j] = "}" /\ \A k \in 2..(j - 1) : fmt[k] # "}"
  ELSE 0

RECURSIVE ExpandTemplate(_, _, _)
\* one pass over the template, left to right: every placeholder becomes the
\* row's value for the field ("" when the row lacks it), {extensao} becomes
\* ext, and substituted text is not read again
ExpandTemplate(fmt, row, ext) ==
  IF fmt = <<>> THEN <<>>
  ELSE LET j == TokenEnd(fmt)
       IN  IF j = 0 THEN <<Head(fmt)>> \o ExpandTemplate(Tail(fmt), row, ext)
           ELSE (IF SubSeq(fmt, 2, j - 1) = StrExtensao THEN ext
                 ELSE FieldOrEmpty(row, SubSeq(fmt, 2, j - 1)))
                \o ExpandTemplate(SubSeq(fmt, j + 1, Len(fmt)), row, ext)

\* the name the specification gives a matched file
ClaimedName(name, row, fmt) ==
  LET extension == ClaimedExtension(name)
  IN  IF Includes(fmt, TokenExtensao)
      THEN ExpandTemplate(fmt, row, SubSeq(extension, 2, Len(extension)))
      ELSE ExpandTemplate(fmt, row, <<>>) \o extension

\* every field the template names is a column of the row
FieldsPresent(fmt, row) ==
  \A i \in 1..Len(Placeholders(fmt, 0)) :
    LET ph == Placeholders(fmt, 0)[i]
        field == SubSeq(ph, 2, Len(ph) - 1)
    IN  field = StrExtensao \/ HasOwn(row, field)

HasDot(name) == \E p \in 1..Len(name) : name[p] = "."

\* the files of the last generatePreviews run of ProcessFiles.tsx that were
\* matched to a row
MatchedTsx ==
  {i \in 1..Len(filePreviewsTsx) :
     i <= Len(matchValuesTsx) /\ ~matchValuesTsx[i].isNull}

RowTsx(i) == OwnValue(referenceDataTsx, matchValuesTsx[i].key)

\* C11 (as claimed): for a matched file whose name has no '.' and a template
\* without {extensao} (whose fields the row has), the new name is the expanded
\* template with nothing appended.
C11_NoDotNothingAppended ==
  \A i \in MatchedTsx :
    (/\ ~HasDot(files[i].name)
     /\ ~Includes(format, TokenExtensao)
     /\ FieldsPresent(format, RowTsx(i)))
      => Sanitize(filePreviewsTsx[i].newName)
           = Sanitize(ExpandTemplate(format, RowTsx(i), <<>>))

\* C12 (as claimed): for a matched file (with a '.' in its name, and a row
\* that has the template's fields), a template without {extensao} renders as
\* the expanded template followed by the extension, and a template with
\* {extensao} renders with the token replaced by the extension without its dot
\* and nothing appended ("{extensao}" with "report.CSV" gives "CSV").
C12_ExtensionTokenOrSuffix ==
  \A i \in MatchedTsx :
    (HasDot(files[i].name) /\ FieldsPresent(format, RowTsx(i)))
      => Sanitize(filePreviewsTsx[i].newName)
           = Sanitize(ClaimedName(files[i].name, RowTsx(i), format))

\* C13 (as claimed): for a matched file (with a '.' in its name) every field
\* placeholder is replaced by the row's value, or by "" when the row lacks the
\* field, in one pass: no error is set, no placeholder of the template is left,
\* and substituted text is not expanded again.
C13_FieldsSubstitutedOnce ==
  \A i \in Passed :
    (locals[i].fileRefData.kind = "row" /\ HasDot(files[i].name))
      => /\ ~filePreviews[i].error.present
         /\ filePreviews[i].newName
              = Sanitize(ClaimedName(files[i].name, locals[i].fileRefData.row, format))

\* C14 (as claimed): the new name of a matched file contains none of the
\* characters < > : " / \ | ? *.
C14_NoIllegalCharacters ==
  \A i \in MatchedTsx :
    \A p \in 1..Len(filePreviewsTsx[i].newName) :
      filePreviewsTsx[i].newName[p] \notin IllegalChars

(***************************************************************************)
(* Properties of the preview list, the commit and failed reloads           *)
(***************************************************************************)
\* C15: once previews were produced there is exactly one entry per input
\* file, in input order: the i-th entry carries the name and the size of the
\* i-th file, also when file names repeat.
C15_OneEntryPerFileInOrder ==
  isPreviewReady
    => /\ Len(filePreviews) = Len(files)
       /\ \A i \in 1..Len(files) :
            /\ filePreviews[i].originalName = files[i].name
            /\ filePreviews[i].size = files[i].size

\* C15 witness: previews of two files that share a name and differ in size
C15_Witness ==
  /\ isPreviewReady
  /\ Len(files) = 2
  /\ files[1].name = files[2].name
  /\ files[1].size # files[2].size
  /\ Len(filePreviews) = 2

\* the entry the preview loop produces for a file that is alone in the batch
AloneEntry(file, refData, col, fmt) ==
  LoopPreviews(<<file>>, LoopLocals(<<file>>, refData, col, fmt))[1]

\* C16: whenever the preview list is recomputed, the entry of each file is the
\* entry that file gets alone, for the same index, match column and template,
\* whatever files precede or follow it; a file without a match does not stop
\* the files after it.
C16_EntriesIndependent ==
  [][filePreviews' # filePreviews
       => /\ Len(filePreviews') = Len(files')
          /\ \A i \in 1..Len(files') :
               filePreviews'[i]
                 = AloneEntry(files'[i], referenceData', matchColumn', format')]_vars

\* C16 witness: a batch whose first file has no match and whose second file
\* is matched to a row
C16_Witness ==
  /\ Len(filePreviews) = 2
  /\ Len(locals) = 2
  /\ filePreviews[1].error.present
  /\ locals[1].fileRefData.kind = "undefined"
  /\ ~filePreviews[2].error.present
  /\ locals[2].fileRefData.kind = "row"

\* C17 (as claimed): when a commit runs, the name under which each file is
\* added to the archive is the newName of that file's preview entry at that
\* moment.
C17_CommitNamesEqualPreview ==
  [][packed' # packed
       => /\ Len(packed') = Len(filePreviews)
          /\ \A i \in 1..Len(packed') :
               packed'[i].name = filePreviews[i].newName]_vars

\* C18 (as claimed): the archive of a successful commit of distinct input
\* files has one entry per input file, each holding that file's bytes.
C18_ArchiveHoldsEveryFile ==
  (/\ packed # <<>>
   /\ \A i, j \in 1..Len(files) : i # j => files[i].bytes # files[j].bytes)
    => /\ Len(savedZip) = Len(files)
       /\ \A i \in 1..Len(files) :
            \E k \in 1..Len(savedZip) : savedZip[k].bytes = files[i].bytes

\* the marker ProcessFiles.tsx puts before the name of a file it could not
\* rename
FallbackPrefix == <<"n","a","o","_","p","r","o","c","e","s","s","a","d","o","_">>

\* C19 (as claimed): after a commit, a file whose preview carries an error is
\* either not in the archive or is there under a marked fallback name.
C19_ErrorFilesSkippedOrMarked ==
  packed # <<>>
    => \A i \in 1..Len(files) :
         filePreviews[i].error.present
           => \A k \in 1..Len(savedZip) :
                savedZip[k].bytes = files[i].bytes
                  => savedZip[k].name = FallbackPrefix \o files[i].name

\* the messages a failed reload of the reference file records
ReloadFailuresTsx ==
  {ErrReadReferenceTsx, ErrEmptyReference} \cup {ErrColumnMissing(matchColumn)}

\* C20 (as claimed): a failed reload of the reference file records its error
\* and leaves the reference index and the preview list as they were.
C20_FailedReloadKeepsState ==
  [][(errorTsx' \in ReloadFailuresTsx /\ errorTsx' # errorTsx)
       => /\ referenceDataTsx' = referenceDataTsx
          /\ filePreviewsTsx' = filePreviewsTsx]_vars

\* C21 (as claimed): while a run of processFiles is in flight no second run
\* is started, and neither the reference data nor the preview list is
\* replaced.
C21_OneBatchAtATime ==
  [][commits # <<>>
       => /\ Len(commits') <= Len(commits)
          /\ referenceData' = referenceData
          /\ filePreviews' = filePreviews]_vars

\* the trimmed match-column value of the i-th row; empty when the row lacks
\* the column
TrimmedValue(i) ==
  IF HasOwn(jsonData[i], matchColumn) THEN Trim(OwnValue(jsonData[i], matchColumn))
  ELSE <<>>

\* the Levenshtein variant has built its index; the other variant has built a
\* non-empty one
BuiltLev == ~isProcessing
BuiltTsx == referenceDataTsx # EmptyObject

\* every row with a non-empty trimmed value is found under that value
RowsRetrievable(refData) ==
  \A i \in 1..Len(jsonData) :
    TrimmedValue(i) # <<>>
      => GetProperty(refData, TrimmedValue(i)) = OwnRow(jsonData[i])

\* C22 (as claimed): after the index is built, every row whose match-column
\* value is non-empty after trimming is found under its trimmed value, also
\* when several rows share a value.
C22_EveryRowRetrievable ==
  /\ BuiltLev => RowsRetrievable(referenceData)
  /\ BuiltTsx => RowsRetrievable(referenceDataTsx)

\* the last row in load order that carries the trimmed value k
LastRowWith(k) ==
  jsonData[CHOOSE i \in 1..Len(jsonData) :
             /\ TrimmedValue(i) = k
             /\ \A j \in (i + 1)..Len(jsonData) : TrimmedValue(j) # k]

\* one key per distinct non-empty trimmed value, mapped to the last row
\* carrying it
LastWriteWins(refData) ==
  /\ {ObjectKeys(refData)[n] : n \in 1..Len(ObjectKeys(refData))}
       = {TrimmedValue(i) : i \in 1..Len(jsonData)} \ {<<>>}
  /\ \A n \in 1..Len(ObjectKeys(refData)) :
       GetProperty(refData, ObjectKeys(refData)[n])
         = OwnRow(LastRowWith(ObjectKeys(refData)[n]))

\* C25 (as claimed): the index has exactly one key per distinct trimmed
\* non-empty match-column value, mapped to the last row in load order that
\* carries it; rows with an absent, empty or whitespace-only value give no key.
C25_LastWriteWins ==
  /\ BuiltLev => LastWriteWins(referenceData)
  /\ BuiltTsx => LastWriteWins(referenceDataTsx)

\* the match column is a column of no row of a sheet that has rows
ColumnInNoRow ==
  /\ jsonData # <<>>
  /\ \A i \in 1..Len(jsonData) : ~HasOwn(jsonData[i], matchColumn)

\* C26 (as claimed): with a match column that no row has, the build is not an
\* error: the index is empty and the preview has one entry per file, each
\* reporting no match.
C26_MissingColumnIsNotAnError ==
  ColumnInNoRow
    => /\ errorTsx = NoErrorTsx
       /\ BuiltLev
            => /\ error = NoErrorLev
               /\ referenceData = EmptyObject
               /\ Len(filePreviews) = Len(files)
               /\ \A i \in 1..Len(files) : filePreviews[i].error.present

\* the stem as specified: the part before the last '.', the whole name when
\* there is no '.'
ClaimedStem(name) ==
  LET dots == {p \in 1..Len(name) : name[p] = "."}
  IN  IF dots = {} THEN name
      ELSE SubSeq(name, 1, (CHOOSE p \in dots : \A q \in dots : q <= p) - 1)

\* the lengths n such that the first n units of s are of the class and the
\* next unit is a separator
LeadingTokens(s, class) ==
  {n \in 1..(Len(s) - 1) :
     /\ \A k \in 1..n : s[k] \in class
     /\ s[n + 1] \in Separators}

\* the positions n such that s from n on is digits and the unit before n is
\* a separator
TrailingTokens(s) ==
  {n \in 2..Len(s) :
     /\ \A k \in n..Len(s) : s[k] \in Digits
     /\ s[n - 1] \in Separators}

\* the identifier the three patterns give for a stem, tried in order
ClaimedIdentifier(s) ==
  IF LeadingTokens(s, Digits) # {}
  THEN SubSeq(s, 1, CHOOSE n \in LeadingTokens(s, Digits) : TRUE)
  ELSE IF TrailingTokens(s) # {}
  THEN SubSeq(s, CHOOSE n \in TrailingTokens(s) : TRUE, Len(s))
  ELSE IF LeadingTokens(s, AlphaNum) # {}
  THEN SubSeq(s, 1, CHOOSE n \in LeadingTokens(s, AlphaNum) : TRUE)
  ELSE s

\* the four examples
ExtractExamples ==
  /\ ClaimedIdentifier(Stem111x222) = <<"1","1","1">>
  /\ ClaimedIdentifier(StemNome12345) = Stem12345
  /\ ClaimedIdentifier(StemAB12x) = <<"A","B","1","2">>
  /\ ClaimedIdentifier(Stem12345) = Stem12345

\* C24 (as claimed): for a code column the extractor returns the capture of
\* the first of the three patterns that matches the stem (leading digits,
\* trailing digits, leading alphanumeric run, each next to a separator), and
\* the whole stem when none matches; "111_x_222" gives "111", "Nome_12345"
\* gives "12345", "AB12_x" gives "AB12" and "12345" gives "12345".
C24_PatternsInOrder ==
  /\ ExtractExamples
  /\ (~IsNameColumn(matchColumn) /\ Len(locals) = 1)
       => locals[1].identifier = ClaimedIdentifier(ClaimedStem(files[1].name))

\* C23 (as claimed): during a commit the progress never decreases; it starts
\* at 0, is the percentage of the files packaged so far, and is 100 exactly
\* when every input file of the commit has been packaged.
C23_ProgressMonotone ==
  [][/\ commits # <<>> => progress' >= progress
     /\ Len(commits') > Len(commits) => progress' = 0
     /\ \A c \in 1..Len(commits') :
          /\ progress' = Percent(Len(commits'[c].calls), Len(commits'[c].files))
          /\ progress' = 100 <=> Len(commits'[c].calls) = Len(commits'[c].files)]_vars

\* no read and no commit is in flight, no commit has been started since the
\* last read was started, and no read has failed since: every read of the
\* reference file, the latest included, has completed with onload
LoadsCompleted ==
  /\ loads = <<>>
  /\ commits = <<>>
  /\ packed = <<>>
  /\ error = NoErrorLev

\* C27 (as claimed): once every read in flight has completed, the reference
\* data and the preview list are those derived from the latest match column,
\* files and template, whatever the order in which the reads completed.
C27_LatestLoadWins ==
  LoadsCompleted
    => /\ referenceData = BuildRefData(jsonData, matchColumn, 1, EmptyObject)
       /\ filePreviews =
            LoopPreviews(files, LoopLocals(files, referenceData, matchColumn, format))

\* the step in which the c-th run of processFiles ends before all its files
\* were read
ReadFailedIn(c) ==
  /\ Len(commits[c].calls) < Len(commits[c].files)
  /\ commits' = RemoveAt(commits, c)

\* C30: when the read of a file fails during a commit, nothing is saved, the
\* error is recorded, the reference data and the preview list stay as they
\* were, and both flags are cleared, so that the download button is enabled.
C30_FailedReadSavesNothing ==
  [][\A c \in 1..Len(commits) :
       ReadFailedIn(c)
         => /\ savedZip' = savedZip
            /\ packed' = packed
            /\ error' = ErrProcessFiles
            /\ referenceData' = referenceData
            /\ filePreviews' = filePreviews
            /\ ~isProcessing'
            /\ ~isDownloading'
            /\ ButtonEnabled']_vars

\* a commit of two files has failed on its second file
C30_Witness ==
  /\ error = ErrProcessFiles
  /\ progress = 50
  /\ commits = <<>>
  /\ savedZip = <<>>
  /\ ~isProcessing

\* C28 (as claimed): the selector shows its loading indicator only while a
\* read of the reference file is in flight: the 200 ms timer never sets
\* isLoading after the load it belongs to has finished.
C28_LoadingOnlyWhileReading ==
  isLoading => (effectRuns # <<>> /\ effectRuns[1].read)

\* C29 (as claimed): removing the reference file puts the wizard at step 1
\* with only step 1 expanded; while there is no reference file the active
\* step stays 1; and the active step is always in 1..4 and changes only to a
\* step whose canProceedToStep condition holds.
C29_NoStepWithoutReferenceFile ==
  /\ [](activeStep \in 1..4 /\ (~referenceFile => activeStep = 1))
  /\ [][((referenceFile /\ ~referenceFile')
           => (activeStep' = 1 /\ expandedSteps' = {1}))
        /\ ((activeStep' # activeStep) => canProceedToStep(activeStep'))]_vars

====
